---- MODULE Spec2Model ----
(***************************************************************************)
(* State-machine model of aissamchecker.py: the Telegram bot loop of       *)
(* main() (the update poll and its cursor, command handling, the due-check *)
(* sweep, the anchored schedule), the command-line drivers of main(),      *)
(* handle_result's notification decision, the choice of the encoding in    *)
(* page_contains_text, and the text normalizer _normalize_arabic.          *)
(*                                                                         *)
(* Conventions.  A string of the program is a sequence of one-character    *)
(* strings, so that startswith, split, replace and float() are computed    *)
(* and not assumed.  Durations and instants are integers counting tenths   *)
(* of a second; the readings of time.time() are whole seconds.  Python's   *)
(* None / True / False of a URL state are "None" / "True" / "False".       *)
(* Console output (print) is not part of the state.                        *)
(***************************************************************************)
EXTENDS Integers, Sequences, FiniteSets, TLC

(***************************************************************************)
(* Bounds of the model.                                                    *)
(***************************************************************************)
MaxElapsed == 2     \* seconds of wall time the bot loop is followed for
MaxLatency == 2     \* seconds one slow fetch takes
StartTime == 100    \* time.time() reading, in seconds, when the loop starts
MaxCmdArgs == 3     \* arguments after the verb of a followed start-watch
MaxLen == 3         \* characters of a string given to the normalizer
MaxPasses == 2      \* applications of the normalizer to one string
MaxLog == 5         \* checks written down in history
MaxLogElapsed == 4  \* seconds of wall time a logged run is followed for
MaxUpdates == 3     \* updates that reach the Bot API
MaxFetches == 2     \* pages fetched and decoded
MaxCycles == 3      \* sweeps of the --watch loop

(***************************************************************************)
(* Program constants.                                                      *)
(***************************************************************************)
DefaultInterval == 50   \* --interval default 5.0 s, in tenths
MinInterval == 10       \* potential_interval >= 1.0, in tenths

ChatIds == {"c1", "c2"}
TgToken == "token"      \* args.tg_token: non-empty in bot mode (line 189)
TgChatId == "admin"     \* args.tg_chat_id

(***************************************************************************)
(* Strings as sequences of characters.                                     *)
(***************************************************************************)
UpperLetters == <<"A","B","C","D","E","F","G","H","I","J","K","L","M",
                  "N","O","P","Q","R","S","T","U","V","W","X","Y","Z">>
LowerLetters == <<"a","b","c","d","e","f","g","h","i","j","k","l","m",
                  "n","o","p","q","r","s","t","u","v","w","x","y","z">>

\* str.lower() on the ASCII characters a command verb is written in
LowerAscii(s) ==
  [i \in 1..Len(s) |->
     IF \E k \in 1..26 : UpperLetters[k] = s[i]
       THEN LowerLetters[CHOOSE k \in 1..26 : UpperLetters[k] = s[i]]
       ELSE s[i]]

\* str.startswith
StartsWith(s, prefix) ==
  /\ Len(s) >= Len(prefix)
  /\ SubSeq(s, 1, Len(prefix)) = prefix

HttpPrefix == <<"h","t","t","p",":","/","/">>
HttpsPrefix == <<"h","t","t","p","s",":","/","/">>

\* arg.startswith('http://') or arg.startswith('https://')
IsUrl(arg) == StartsWith(arg, HttpPrefix) \/ StartsWith(arg, HttpsPrefix)

Digits == <<"0","1","2","3","4","5","6","7","8","9">>
IsDigit(c) == \E k \in 1..10 : Digits[k] = c
DigitVal(c) == (CHOOSE k \in 1..10 : Digits[k] = c) - 1

RECURSIVE DecimalValue(_)
DecimalValue(s) ==
  IF s = <<>> THEN 0
  ELSE 10 * DecimalValue(SubSeq(s, 1, Len(s) - 1)) + DigitVal(s[Len(s)])

AllDigits(s) == \A i \in 1..Len(s) : IsDigit(s[i])

\* float(arg) succeeds (no ValueError) on the plain decimal literals "ddd"
\* and "ddd.d"; every other token of the model's alphabet raises ValueError
CanParseFloat(arg) ==
  \/ arg # <<>> /\ AllDigits(arg)
  \/ /\ Len(arg) >= 3
     /\ arg[Len(arg) - 1] = "."
     /\ AllDigits(SubSeq(arg, 1, Len(arg) - 2))
     /\ IsDigit(arg[Len(arg)])

\* the value of float(arg), in tenths
ParseFloat(arg) ==
  IF AllDigits(arg) THEN 10 * DecimalValue(arg)
  ELSE 10 * DecimalValue(SubSeq(arg, 1, Len(arg) - 2)) + DigitVal(arg[Len(arg)])

(***************************************************************************)
(* The text normalizer _normalize_arabic.  A character is written by a     *)
(* name: "a" "A" "i" " " are themselves, "NBSP" is U+00A0, "FATHA" U+064E  *)
(* and "DOTABOVE" U+0307 are combining marks, "IDOT" is U+0130, and the    *)
(* characters of the replacement table as the file has them are "OSTROKE"  *)
(* U+00D8, "UGRAVE" U+00D9, "POUND" U+00A3, "SECTION" U+00A7, "YEN" U+00A5,*)
(* "CENT" U+00A2, "PERMILLE" U+2030, "SCARON" U+0160, "CURRENCY" U+00A4,   *)
(* "CIRCUMFLEX" U+02C6, "BROKENBAR" U+00A6, "COPYRIGHT" U+00A9, "DDAGGER"  *)
(* U+2021, "EURO" U+20AC; "ostroke" "ugrave" "scaron" are the lower case   *)
(* of three of them.                                                       *)
(***************************************************************************)
RECURSIVE Flatten(_)
Flatten(parts) == IF parts = <<>> THEN <<>> ELSE Head(parts) \o Flatten(Tail(parts))

\* unicodedata.normalize("NFKC", text): U+00A0 decomposes to the space, the
\* other characters are their own normal form, and no two neighbours of a
\* string over these characters that the normalizer meets compose
NfkcChar(ch) == IF ch = "NBSP" THEN <<" ">> ELSE <<ch>>
Nfkc(str) == Flatten([i \in 1..Len(str) |-> NfkcChar(str[i])])

\* unicodedata.combining(ch) != 0
combining(ch) == ch \in {"FATHA", "DOTABOVE"}

\* "".join(ch for ch in text if not unicodedata.combining(ch))
StripMarks(str) == SelectSeq(str, LAMBDA ch : ~combining(ch))

\* the dict replacements, in its order
replacements ==
  << [src |-> <<"OSTROKE", "POUND">>,      dst |-> <<"OSTROKE", "SECTION">>],
     [src |-> <<"OSTROKE", "YEN">>,        dst |-> <<"OSTROKE", "SECTION">>],
     [src |-> <<"OSTROKE", "CENT">>,       dst |-> <<"OSTROKE", "SECTION">>],
     [src |-> <<"UGRAVE", "PERMILLE">>,    dst |-> <<"UGRAVE", "SCARON">>],
     [src |-> <<"OSTROKE", "CURRENCY">>,   dst |-> <<"UGRAVE", "CIRCUMFLEX">>],
     [src |-> <<"OSTROKE", "BROKENBAR">>,  dst |-> <<"UGRAVE", "SCARON">>],
     [src |-> <<"OSTROKE", "COPYRIGHT">>,  dst |-> <<"UGRAVE", "DDAGGER">>],
     [src |-> <<"UGRAVE", "EURO">>,        dst |-> <<>>] >>

\* str.replace(src, dst): the occurrences from the left, not overlapping
RECURSIVE Replace(_, _, _)
Replace(str, src, dst) ==
  IF Len(str) < Len(src) THEN str
  ELSE IF SubSeq(str, 1, Len(src)) = src
    THEN dst \o Replace(SubSeq(str, Len(src) + 1, Len(str)), src, dst)
    ELSE <<Head(str)>> \o Replace(Tail(str), src, dst)

\* for src, dst in replacements.items(): text = text.replace(src, dst)
RECURSIVE FoldFrom(_, _)
FoldFrom(str, k) ==
  IF k > Len(replacements) THEN str
  ELSE FoldFrom(Replace(str, replacements[k].src, replacements[k].dst), k + 1)

Fold(str) == FoldFrom(str, 1)

\* str.isspace of a character
IsSpace(ch) == ch \in {" ", "NBSP"}

\* text.split(): the maximal runs of characters that are not whitespace
RECURSIVE Split(_, _)
Split(str, word) ==
  IF str = <<>> THEN (IF word = <<>> THEN <<>> ELSE <<word>>)
  ELSE IF IsSpace(Head(str))
    THEN (IF word = <<>> THEN <<>> ELSE <<word>>) \o Split(Tail(str), <<>>)
    ELSE Split(Tail(str), Append(word, Head(str)))

\* " ".join(words)
RECURSIVE Join(_)
Join(words) ==
  IF words = <<>> THEN <<>>
  ELSE IF Len(words) = 1 THEN words[1]
  ELSE words[1] \o <<" ">> \o Join(Tail(words))

Collapse(str) == Join(Split(str, <<>>))

\* str.lower() of one character: U+0130 becomes i followed by U+0307
LowerChar(ch) ==
  CASE ch = "A" -> <<"a">>
    [] ch = "IDOT" -> <<"i", "DOTABOVE">>
    [] ch = "OSTROKE" -> <<"ostroke">>
    [] ch = "UGRAVE" -> <<"ugrave">>
    [] ch = "SCARON" -> <<"scaron">>
    [] OTHER -> <<ch>>

Lower(str) == Flatten([i \in 1..Len(str) |-> LowerChar(str[i])])

_normalize_arabic(str) == Lower(Collapse(Fold(StripMarks(Nfkc(str)))))

(***************************************************************************)
(* Command parsing (bot mode).  A message text is the sequence of its      *)
(* whitespace-separated words, i.e. text.strip().split().                  *)
(***************************************************************************)
\* parse_command: (cmd, args_list)
parse_command(text) ==
  IF text = <<>> THEN [cmd |-> <<>>, args |-> <<>>]
  ELSE [cmd |-> LowerAscii(text[1]), args |-> Tail(text)]

CmdWatch == {<<"/","w","a","t","c","h">>, <<"w","a","t","c","h">>}
CmdStop == {<<"/","s","t","o","p">>, <<"s","t","o","p">>}
CmdStatus == {<<"/","s","t","a","t","u","s">>, <<"s","t","a","t","u","s">>}
CmdHelp == {<<"/","h","e","l","p">>, <<"h","e","l","p">>,
            <<"/","s","t","a","r","t">>, <<"s","t","a","r","t">>}

\* urls of the /watch handler: the arguments that start with a URL scheme
WatchUrls(args) == SelectSeq(args, IsUrl)

\* a variant: the comparison written > 1.0
IntervalStepStrict(interval, arg) ==
  IF CanParseFloat(arg) /\ ParseFloat(arg) > MinInterval
    THEN ParseFloat(arg) ELSE interval

\* one non-URL argument seen with the interval so far
IntervalStep(interval, arg) ==
  IF CanParseFloat(arg) /\ ParseFloat(arg) >= MinInterval
    THEN ParseFloat(arg) ELSE interval

\* interval of the /watch handler: the loop over cmd_args, left to right
RECURSIVE WatchIntervalFrom(_, _)
WatchIntervalFrom(interval, args) ==
  IF args = <<>> THEN interval
  ELSE WatchIntervalFrom(
         IF IsUrl(Head(args)) THEN interval ELSE IntervalStep(interval, Head(args)),
         Tail(args))

WatchInterval(args) == WatchIntervalFrom(DefaultInterval, args)

\* a variant: only the first url gets a state
FreshStatesOfFirst(urls) == [u \in {urls[i] : i \in 1..Len(urls) \cap {1}} |-> "None"]

\* {url: None for url in urls}
FreshStates(urls) == [u \in {urls[i] : i \in 1..Len(urls)} |-> "None"]

\* the dict stored in tasks[chat_id]
NewTask(urls, interval) ==
  [urls |-> urls, interval |-> interval, states |-> FreshStates(urls), next_at |-> 0]

(***************************************************************************)
(* The inputs of the bot loop: message texts.                              *)
(***************************************************************************)
UrlA == HttpsPrefix \o <<"a",".","t","e","s","t">>
UrlB == HttpsPrefix \o <<"b",".","t","e","s","t">>
WordOne == <<"1">>

SeqsUpTo(S, n) == UNION {[1..k -> S] : k \in 0..n}

VerbWatch == <<"/","w","a","t","c","h">>
VerbWatchCapital == <<"W","a","t","c","h">>
VerbStop == <<"/","s","t","o","p">>
VerbStopUpper == <<"S","T","O","P">>
VerbStatus == <<"s","t","a","t","u","s">>
VerbHelp == <<"/","h","e","l","p">>
VerbOther == <<"h","i">>

\* the texts chats send to the bot loop
BotTexts ==
  { <<>>,
    <<VerbWatch>>, <<VerbWatch, WordOne>>,
    <<VerbWatchCapital, UrlA, UrlB>>, <<VerbWatch, UrlB, WordOne>>,
    <<VerbStop>>, <<VerbStopUpper, UrlA>>,
    <<VerbStatus>>, <<VerbHelp>>, <<VerbOther, UrlA>> }

\* the words and texts of a chat whose start-watch commands are followed
UrlPlain == HttpPrefix \o <<"c">>
WordTen == <<"1","0">>
WordLow == <<"0",".","9">>
WordJunk == <<"H","t","t","p",":","/","/","d">>
VerbWatchPlain == <<"w","a","t","c","h">>

CmdWords == {UrlA, UrlB, UrlPlain, WordTen, WordOne, WordLow, WordJunk}
CmdTexts == {<<VerbWatchPlain>> \o a : a \in SeqsUpTo(CmdWords, MaxCmdArgs)}

\* the texts of the chat of a run followed check by check
LogTexts == { <<VerbWatch, UrlB, WordOne>>, <<VerbWatch, UrlA, UrlB, WordOne>>,
              <<VerbWatch, UrlA, UrlA, WordOne>> }

\* what lines 224-314 make of a text: the branch taken, and for /watch the
\* urls and the interval computed by the loop of lines 233-243
Interpret(msgtext) ==
  LET cmd == parse_command(msgtext).cmd
      cmd_args == parse_command(msgtext).args
      branch == IF msgtext = <<>> THEN "skip"
                ELSE IF cmd \in CmdWatch /\ Len(cmd_args) >= 1 THEN "watch"
                ELSE IF cmd \in CmdStop THEN "stop"
                ELSE IF cmd \in CmdStatus THEN "status"
                ELSE IF cmd \in CmdHelp THEN "help"
                ELSE "none"
  IN  [branch |-> branch,
       urls |-> IF branch = "watch" THEN WatchUrls(cmd_args) ELSE <<>>,
       interval |-> IF branch = "watch" THEN WatchInterval(cmd_args) ELSE DefaultInterval]

(***************************************************************************)
(* handle_result: the notification decision.                               *)
(***************************************************************************)
\* a variant: notify only after a check that saw the text absent
should_notify_after_absent(exists, prev_state) == exists /\ prev_state = "False"

\* a variant: the previous state forgotten
should_notify_whenever_present(exists, prev_state) == exists

\* should_notify = exists and (prev_state is not True)
should_notify(exists, prev_state) == exists /\ prev_state # "True"

Msg(to, kind, url) == [to |-> to, kind |-> kind, url |-> url]

\* a variant: the message goes to the chat of the command line, as in the
\* command-line drivers
handle_result_to_admin(url, exists, prev_state, notify_token, notify_chat) ==
  IF should_notify(exists, prev_state) /\ notify_token # "" /\ notify_chat # ""
    THEN <<Msg(TgChatId, "found", url)>>
    ELSE <<>>

\* the messages handle_result sends; it returns exists
handle_result(url, exists, prev_state, notify_token, notify_chat) ==
  IF should_notify(exists, prev_state) /\ notify_token # "" /\ notify_chat # ""
    THEN <<Msg(notify_chat, "found", url)>>
    ELSE <<>>

StateOf(exists) == IF exists THEN "True" ELSE "False"

(***************************************************************************)
(* The bot loop of main().                                                 *)
(*   tasks    the dict tasks: chat id -> task, for the chat ids watched    *)
(*   order    the insertion order of the keys of tasks                     *)
(*   clock    wall time; now is the tick's reading of it (line 317)        *)
(*   pc       "updates": lines 213-314, "due": the loop of line 318,       *)
(*            "sweep": the loop of line 321, "crashed": an exception left  *)
(*            the while loop                                               *)
(*   pending  the part of list(tasks.items()) the tick has not reached     *)
(*   idx      position in task["urls"] of the sweep                        *)
(*   outbox   the messages the last step handed to _send_telegram_message  *)
(*   fetched  how page_contains_text ended in the last step                *)
(*   inbox    the update (chat, text) the step took from the batch         *)
(*   history  the checks made for the tasks since the last /watch that     *)
(*            stored one, kept where a run is followed check by check      *)
(*   text     the string held by the text normalizer                       *)
(*   passes   how often the normalizer was applied to it                   *)
(* The update poll of lines 213-222:                                       *)
(*   next_offset  the cursor given to getUpdates: <<>> is None, <<n>> is n *)
(*   batch    the updates of the last poll not yet gone through            *)
(*   server   the updates the Bot API holds, by rising update_id           *)
(*   applied  the update ids whose command reached the dispatch of         *)
(*            line 224, in the order they did                              *)
(* The command-line drivers of lines 333-408:                              *)
(*   cliPc    "check": the loop over args.urls, "wait": lines 370-376,     *)
(*            "done": the program finished, "crashed": an exception left   *)
(*            main, "off": bot mode                                        *)
(*   cliIdx   position in args.urls                                        *)
(*   cycle    the sweep counter of line 344                                *)
(*   found    the flag of lines 351 and 389                                *)
(*   start    the reading of line 350                                      *)
(*   sent     the messages handed to _send_telegram_message in the run     *)
(* The decoding of a fetched page, lines 89-95:                            *)
(*   declared, apparent   resp.encoding as requests set it from the        *)
(*            headers, and resp.apparent_encoding; <<>> is None            *)
(*   encoding resp.encoding when resp.text is read; <<>> before that       *)
(*   fetches  the pages decoded so far                                     *)
(***************************************************************************)
VARIABLES tasks, order, clock, now, pc, pending, idx, outbox, fetched, inbox,
          history, text, passes,
          next_offset, batch, server, applied,
          cliPc, cliIdx, cycle, found, start, sent,
          declared, apparent, encoding, fetches

botVars == <<tasks, order, clock, now, pc, pending, idx, outbox, fetched, inbox,
             history>>
normVars == <<text, passes>>
pollVars == <<next_offset, batch, server, applied>>
cliVars == <<cliPc, cliIdx, cycle, found, start, sent>>
encVars == <<declared, apparent, encoding, fetches>>
sideVars == <<normVars, pollVars, cliVars, encVars>>
vars == <<botVars, sideVars>>

InitBot ==
  /\ tasks = <<>>
  /\ order = <<>>
  /\ clock = StartTime * 10
  /\ now = 0
  /\ pc = "updates"
  /\ pending = <<>>
  /\ idx = 0
  /\ outbox = <<Msg(TgChatId, "hello", <<>>)>>
  /\ fetched = "none"
  /\ inbox = <<>>
  /\ history = <<>>

Remove(seq, x) == SelectSeq(seq, LAMBDA y : y # x)

\* a variant: a stored task waits one interval for its first sweep
StoreTaskAfterInterval(chat_id, task) ==
  /\ tasks' = [c \in DOMAIN tasks \cup {chat_id} |->
                 IF c = chat_id THEN [task EXCEPT !.next_at = clock + task.interval]
                 ELSE tasks[c]]
  /\ order' = IF chat_id \in DOMAIN tasks THEN order ELSE Append(order, chat_id)

\* a variant: a replaced task hands the states of its urls on to the new one
StoreTaskKeepingStates(chat_id, task) ==
  /\ tasks' = IF chat_id \in DOMAIN tasks
                THEN [tasks EXCEPT ![chat_id] =
                        [task EXCEPT !.states =
                           [u \in DOMAIN task.states |->
                              IF u \in DOMAIN tasks[chat_id].states
                                THEN tasks[chat_id].states[u] ELSE "None"]]]
                ELSE [c \in DOMAIN tasks \cup {chat_id} |->
                        IF c = chat_id THEN task ELSE tasks[c]]
  /\ order' = IF chat_id \in DOMAIN tasks THEN order ELSE Append(order, chat_id)

\* tasks[chat_id] = {...}: a new key goes last, a replaced key keeps its place
StoreTask(chat_id, task) ==
  /\ tasks' = IF chat_id \in DOMAIN tasks
                THEN [tasks EXCEPT ![chat_id] = task]
                ELSE [c \in DOMAIN tasks \cup {chat_id} |->
                        IF c = chat_id THEN task ELSE tasks[c]]
  /\ order' = IF chat_id \in DOMAIN tasks THEN order ELSE Append(order, chat_id)

\* a variant: the task is emptied of its urls, its key stays in the dict
PopTaskLeavingKey(chat_id) ==
  /\ tasks' = [tasks EXCEPT ![chat_id] = NewTask(<<>>, tasks[chat_id].interval)]
  /\ order' = order

\* tasks.pop(chat_id, None)
PopTask(chat_id) ==
  /\ tasks' = [c \in DOMAIN tasks \ {chat_id} |-> tasks[c]]
  /\ order' = Remove(order, chat_id)

\* a variant: the branch without the test of line 245
WatchHandlerAnyUrls(chat_id, urls, interval) ==
  /\ StoreTask(chat_id, NewTask(urls, interval))
  /\ outbox' = <<Msg(chat_id, "started", <<>>)>>

\* the /watch branch, lines 226-262
WatchHandler(chat_id, urls, interval) ==
  IF urls = <<>>
    THEN /\ outbox' = <<Msg(chat_id, "need_url", <<>>)>>
         /\ UNCHANGED <<tasks, order>>
    ELSE /\ StoreTask(chat_id, NewTask(urls, interval))
         /\ outbox' = <<Msg(chat_id, "started", <<>>)>>

\* the /stop branch, lines 264-269
StopHandler(chat_id) ==
  IF chat_id \in DOMAIN tasks
    THEN /\ PopTask(chat_id)
         /\ outbox' = <<Msg(chat_id, "stopped", <<>>)>>
    ELSE /\ outbox' = <<Msg(chat_id, "not_active", <<>>)>>
         /\ UNCHANGED <<tasks, order>>

\* a variant: showing the status clears the states shown
StatusHandlerClearing(chat_id) ==
  /\ outbox' = <<Msg(chat_id,
                     IF chat_id \in DOMAIN tasks THEN "status" ELSE "not_active", <<>>)>>
  /\ tasks' = IF chat_id \in DOMAIN tasks
                THEN [tasks EXCEPT ![chat_id].states = FreshStates(tasks[chat_id].urls)]
                ELSE tasks
  /\ order' = order

\* the /status branch, lines 271-299
StatusHandler(chat_id) ==
  /\ outbox' = <<Msg(chat_id,
                     IF chat_id \in DOMAIN tasks THEN "status" ELSE "not_active", <<>>)>>
  /\ UNCHANGED <<tasks, order>>

\* the /help and /start branch, lines 301-314
HelpHandler(chat_id) ==
  /\ outbox' = <<Msg(chat_id, "help", <<>>)>>
  /\ UNCHANGED <<tasks, order>>

\* one update of the batch with a chat and a text, lines 214-314
Dispatch(chat_id, intent) ==
  CASE intent.branch = "watch" -> WatchHandler(chat_id, intent.urls, intent.interval)
    [] intent.branch = "stop" -> StopHandler(chat_id)
    [] intent.branch = "status" -> StatusHandler(chat_id)
    [] intent.branch = "help" -> HelpHandler(chat_id)
    [] OTHER -> outbox' = <<>> /\ UNCHANGED <<tasks, order>>

HandleUpdate(chat_id, msgtext) ==
  /\ pc = "updates"
  /\ inbox' = <<[chat |-> chat_id, text |-> msgtext]>>
  /\ Dispatch(chat_id, Interpret(msgtext))
  /\ fetched' = "none"
  /\ history' = IF tasks' = tasks THEN history ELSE <<>>
  /\ UNCHANGED <<clock, now, pc, pending, idx, sideVars>>

\* now = time.time(); for chat_id, task in list(tasks.items())
Tick ==
  /\ pc = "updates"
  /\ now' = clock
  /\ pending' = order
  /\ pc' = "due"
  /\ outbox' = <<>>
  /\ fetched' = "none"
  /\ inbox' = <<>>
  /\ UNCHANGED <<tasks, order, clock, idx, history, sideVars>>

\* a variant: the comparison written >
IsDueStrictly(task, t) == t > task.next_at

\* if now >= float(task.get("next_at", 0))
IsDue(task, t) == t >= task.next_at

\* a task of the tick that is not due is passed over
SkipTask ==
  /\ pc = "due"
  /\ pending # <<>>
  /\ ~IsDue(tasks[Head(pending)], now)
  /\ pending' = Tail(pending)
  /\ outbox' = <<>>
  /\ fetched' = "none"
  /\ inbox' = <<>>
  /\ UNCHANGED <<tasks, order, clock, now, pc, idx, history, sideVars>>

\* a due task: enter the loop over its urls
BeginSweep ==
  /\ pc = "due"
  /\ pending # <<>>
  /\ IsDue(tasks[Head(pending)], now)
  /\ pc' = "sweep"
  /\ idx' = 1
  /\ outbox' = <<>>
  /\ fetched' = "none"
  /\ inbox' = <<>>
  /\ UNCHANGED <<tasks, order, clock, now, pending, history, sideVars>>

\* how page_contains_text ends: True, False, a requests.RequestException
\* (HTTPError and Timeout are subclasses), any other exception
Outcomes == {"present", "absent", "transport", "error"}

\* a variant: the loop of line 321 without its try
CaughtNothing(outcome) == FALSE

\* what the except clause of line 325 catches
Caught(outcome) == outcome = "transport"

Latencies == {0, MaxLatency * 10}

\* the last clock value a run is followed to
Horizon == (StartTime + MaxElapsed) * 10
LogHorizon == (StartTime + MaxLogElapsed) * 10

\* lines 322-326 for the url at idx: the fetch takes latency tenths
Check(outcome, latency, horizon) ==
  /\ pc = "sweep"
  /\ idx <= Len(tasks[Head(pending)].urls)
  /\ clock + latency <= horizon
  /\ clock' = clock + latency
  /\ fetched' = outcome
  /\ LET chat_id == Head(pending)
         task == tasks[chat_id]
         url == task.urls[idx]
         exists == outcome = "present"
     IN  IF outcome \in {"present", "absent"} \/ Caught(outcome)
           THEN /\ outbox' = handle_result(url, exists, task.states[url], TgToken, chat_id)
                /\ tasks' = [tasks EXCEPT ![chat_id].states[url] = StateOf(exists)]
                /\ idx' = idx + 1
                /\ pc' = pc
           ELSE /\ outbox' = <<>>
                /\ pc' = "crashed"
                /\ UNCHANGED <<tasks, idx>>
  /\ inbox' = <<>>
  /\ UNCHANGED <<order, now, pending, sideVars>>

CheckUrl(outcome, latency) ==
  /\ Check(outcome, latency, Horizon)
  /\ UNCHANGED history

\* the same step, written down in history
CheckUrlLogged(outcome, latency) ==
  /\ Len(history) < MaxLog
  /\ Check(outcome, latency, LogHorizon)
  /\ history' = Append(history,
                  [chat |-> Head(pending), url |-> tasks[Head(pending)].urls[idx],
                   result |-> outcome, sent |-> Len(outbox'), at |-> now])

\* a variant: the schedule counted from the end of the sweep
NextAtFromClock(task, t) == clock + task.interval

\* a variant: the interval left out
NextAtNow(task, t) == t

\* task["next_at"] = now + float(task.get("interval", args.interval))
NextAt(task, t) == t + task.interval

EndSweep ==
  /\ pc = "sweep"
  /\ idx > Len(tasks[Head(pending)].urls)
  /\ tasks' = [tasks EXCEPT ![Head(pending)].next_at =
                 NextAt(tasks[Head(pending)], now)]
  /\ pending' = Tail(pending)
  /\ pc' = "due"
  /\ idx' = 0
  /\ outbox' = <<>>
  /\ fetched' = "none"
  /\ inbox' = <<>>
  /\ UNCHANGED <<order, clock, now, history, sideVars>>

\* time.sleep(TICK_SECONDS): the whole-second reading moves by 0 or 1
Pause(pause, horizon) ==
  /\ pc = "due"
  /\ pending = <<>>
  /\ clock + pause <= horizon
  /\ clock' = clock + pause
  /\ pc' = "updates"
  /\ outbox' = <<>>
  /\ fetched' = "none"
  /\ inbox' = <<>>
  /\ UNCHANGED <<tasks, order, now, pending, idx, history, sideVars>>

Sleep(pause) == Pause(pause, Horizon)
SleepLogged(pause) == Pause(pause, LogHorizon)

Pauses == {0, 10}

\* the parts of the program a run does not enter
IdlePoll ==
  /\ next_offset = <<>>
  /\ batch = <<>>
  /\ server = <<>>
  /\ applied = <<>>

IdleCli ==
  /\ cliPc = "off"
  /\ cliIdx = 0
  /\ cycle = 0
  /\ found = FALSE
  /\ start = 0
  /\ sent = <<>>

IdleEnc ==
  /\ declared = <<>>
  /\ apparent = <<>>
  /\ encoding = <<>>
  /\ fetches = 0

IdleNorm ==
  /\ text = <<>>
  /\ passes = 0

Init ==
  /\ InitBot
  /\ IdleNorm
  /\ IdlePoll
  /\ IdleCli
  /\ IdleEnc

Next ==
  \/ \E chat_id \in ChatIds, msgtext \in BotTexts : HandleUpdate(chat_id, msgtext)
  \/ Tick
  \/ SkipTask
  \/ BeginSweep
  \/ \E outcome \in Outcomes, latency \in Latencies : CheckUrl(outcome, latency)
  \/ EndSweep
  \/ \E pause \in Pauses : Sleep(pause)

Spec == Init /\ [][Next]_vars

\* One chat watching with a one second interval, followed check by check.

LogNext ==
  \/ \E msgtext \in LogTexts : HandleUpdate("c1", msgtext)
  \/ Tick
  \/ SkipTask
  \/ BeginSweep
  \/ \E outcome \in Outcomes, latency \in Latencies : CheckUrlLogged(outcome, latency)
  \/ EndSweep
  \/ \E pause \in Pauses : SleepLogged(pause)

LogSpec == Init /\ [][LogNext]_vars

\* The normalizer, applied again and again to a string.
NormChars == {"a", "A", " ", "NBSP", "FATHA", "IDOT", "OSTROKE", "POUND", "UGRAVE", "EURO"}

NormInit ==
  /\ InitBot
  /\ text \in SeqsUpTo(NormChars, MaxLen)
  /\ passes = 0
  /\ IdlePoll
  /\ IdleCli
  /\ IdleEnc

Normalize ==
  /\ passes < MaxPasses
  /\ text' = _normalize_arabic(text)
  /\ passes' = passes + 1
  /\ UNCHANGED <<botVars, pollVars, cliVars, encVars>>

NormSpec == NormInit /\ [][Normalize]_vars

\* The poll of the updates, lines 213-224, with the commands it applies.  The
\* due checks and the pause between two polls touch neither the cursor nor the
\* batch and are left out.  An update is [id, msg, chat, text]: msg is FALSE
\* when it carries neither message nor edited_message, chat is "" when the
\* message has no chat, text is <<>> when it has no text.
Payloads ==
  { [msg |-> TRUE, chat |-> "c1", text |-> <<VerbWatch, UrlA>>],
    [msg |-> TRUE, chat |-> "c1", text |-> <<VerbStop>>],
    [msg |-> TRUE, chat |-> "c1", text |-> <<>>],
    [msg |-> TRUE, chat |-> "", text |-> <<VerbWatch, UrlB>>],
    [msg |-> FALSE, chat |-> "", text |-> <<>>] }

\* a new update reaches the Bot API: update ids rise by one
Arrive(payload) ==
  /\ Len(server) < MaxUpdates
  /\ server' = Append(server, [id |-> Len(server), msg |-> payload.msg,
                                chat |-> payload.chat, text |-> payload.text])
  /\ UNCHANGED <<botVars, normVars, cliVars, encVars, next_offset, batch, applied>>

\* what getUpdates may return for an offset: updates with id >= offset only
Eligible(offset) ==
  SelectSeq(server, LAMBDA u : offset = <<>> \/ u.id >= offset[1])

Reverse(q) == [i \in 1..Len(q) |-> q[Len(q) + 1 - i]]

\* updates = _get_telegram_updates(token, next_offset, timeout=0): the first n
\* eligible updates in either order; none on a failure
Poll(n, rising) ==
  /\ pc = "updates"
  /\ batch = <<>>
  /\ n <= Len(Eligible(next_offset))
  /\ batch' = IF rising THEN SubSeq(Eligible(next_offset), 1, n)
               ELSE Reverse(SubSeq(Eligible(next_offset), 1, n))
  /\ UNCHANGED <<botVars, normVars, cliVars, encVars, next_offset, server, applied>>

Max(a, b) == IF a >= b THEN a ELSE b

\* a variant: the cursor set from the update alone
NextOffsetOfLast(offset, update_id) == <<update_id + 1>>

\* max(next_offset or 0, upd.get("update_id", 0) + 1)
NextOffset(offset, update_id) ==
  <<Max(IF offset = <<>> THEN 0 ELSE offset[1], update_id + 1)>>

\* one update of the batch, lines 215-224 and the branch taken from there
ProcessUpdate ==
  /\ pc = "updates"
  /\ batch # <<>>
  /\ next_offset' = NextOffset(next_offset, Head(batch).id)
  /\ batch' = Tail(batch)
  /\ LET upd == Head(batch)
     IN  IF upd.msg /\ upd.chat # "" /\ upd.text # <<>>
           THEN /\ Dispatch(upd.chat, Interpret(upd.text))
                /\ inbox' = <<[chat |-> upd.chat, text |-> upd.text]>>
                /\ applied' = Append(applied, upd.id)
           ELSE /\ outbox' = <<>>
                /\ inbox' = <<>>
                /\ UNCHANGED <<tasks, order, applied>>
  /\ fetched' = "none"
  /\ UNCHANGED <<clock, now, pc, pending, idx, history, server,
                 normVars, cliVars, encVars>>

PollNext ==
  \/ \E payload \in Payloads : Arrive(payload)
  \/ \E n \in 0..MaxUpdates, rising \in BOOLEAN : Poll(n, rising)
  \/ ProcessUpdate

PollSpec == Init /\ [][PollNext]_vars

\* The choice of the encoding a fetched page is decoded with, lines 89-95.
Latin1 == <<"i","s","o","-","8","8","5","9","-","1">>
Latin1Upper == <<"I","S","O","-","8","8","5","9","-","1">>
Latin1Alias == <<"l","a","t","i","n","-","1">>
Utf8 == <<"u","t","f","-","8">>
Windows1256 == <<"w","i","n","d","o","w","s","-","1","2","5","6">>

\* the values of resp.encoding and resp.apparent_encoding; <<>> is None
Encodings == {<<>>, Latin1, Latin1Upper, Latin1Alias, Utf8, Windows1256}

\* lines 89-90: if not resp.encoding: resp.encoding = resp.apparent_encoding
Fallback(enc, detected) == IF enc = <<>> THEN detected ELSE enc

\* lines 92-93: if not resp.encoding or resp.encoding.lower() == 'iso-8859-1'
ForceUtf8(enc) == IF enc = <<>> \/ LowerAscii(enc) = Latin1 THEN Utf8 ELSE enc

\* resp.encoding at line 95
ChooseEncoding(enc, detected) == ForceUtf8(Fallback(enc, detected))

\* line 86: a response arrives, with its declared and its detected encoding
Receive(enc, detected) ==
  /\ fetches < MaxFetches
  /\ fetches = 0 \/ encoding # <<>>
  /\ declared' = enc
  /\ apparent' = detected
  /\ encoding' = <<>>
  /\ fetches' = fetches + 1
  /\ UNCHANGED <<botVars, normVars, pollVars, cliVars>>

\* lines 89-95: the encoding resp.text decodes with
Decode ==
  /\ fetches > 0
  /\ encoding = <<>>
  /\ encoding' = ChooseEncoding(declared, apparent)
  /\ UNCHANGED <<botVars, normVars, pollVars, cliVars, declared, apparent, fetches>>

EncNext ==
  \/ \E enc \in Encodings, detected \in Encodings : Receive(enc, detected)
  \/ Decode

EncSpec == Init /\ [][EncNext]_vars

\* The command-line drivers, lines 333-408: cycle is 0 in the single check of
\* lines 384-408 and counts the sweeps from 1 in the --watch loop of lines
\* 335-382.  The bot loop is not entered.
IdleBot ==
  /\ tasks = <<>>
  /\ order = <<>>
  /\ clock = StartTime * 10
  /\ now = 0
  /\ pc = "off"
  /\ pending = <<>>
  /\ idx = 0
  /\ outbox = <<>>
  /\ fetched = "none"
  /\ inbox = <<>>
  /\ history = <<>>

\* args.urls
CliUrls == <<UrlA, UrlB>>

CliInit ==
  /\ IdleBot
  /\ IdleNorm
  /\ IdlePoll
  /\ IdleEnc
  /\ cliPc = "check"
  /\ cliIdx = 1
  /\ cycle \in {0, 1}
  /\ found = FALSE
  /\ start = clock
  /\ sent = <<>>

cliFrame == <<tasks, order, now, pc, pending, idx, outbox, inbox, history,
              normVars, pollVars, encVars>>

\* a variant: the loop over the urls goes on after a detection
BreaksNever(exists) == FALSE

\* lines 357-362 and 396-399: if exists: found = True ... break
Breaks(exists) == exists

\* lines 353-364 and 392-401 for the url at cliIdx
CliCheck(outcome, latency) ==
  /\ cliPc = "check"
  /\ clock' = clock + latency
  /\ fetched' = outcome
  /\ LET url == CliUrls[cliIdx]
         exists == outcome = "present"
     IN  IF outcome \in {"present", "absent"} \/ Caught(outcome)
           THEN /\ sent' = sent \o handle_result(url, exists, "None", TgToken, TgChatId)
                /\ found' = (found \/ exists)
                /\ cliIdx' = cliIdx + 1
                /\ cliPc' = IF Breaks(exists) \/ cliIdx = Len(CliUrls)
                              THEN "swept" ELSE "check"
           ELSE /\ cliPc' = "crashed"
                /\ UNCHANGED <<sent, found, cliIdx>>
  /\ UNCHANGED <<cycle, start, cliFrame>>

\* a variant: the loop over the sweeps goes on after a detection
EndsLoopNever(fnd) == FALSE

\* lines 366-367: if found: break
EndsLoop(fnd) == fnd

\* remainder = args.interval - elapsed; time.sleep(remainder) if it is > 0
SleepFor(elapsed) == Max(DefaultInterval - elapsed, 0)

\* after the loop over the urls: lines 366-376 and 350-351 of the next sweep
\* in the --watch loop, lines 403-408 in the single check
CliAfterSweep ==
  /\ cliPc = "swept"
  /\ fetched' = "none"
  /\ IF cycle = 0 \/ EndsLoop(found)
       THEN /\ cliPc' = "done"
            /\ UNCHANGED <<clock, cycle, start, found, cliIdx>>
       ELSE /\ cycle < MaxCycles
            /\ clock' = clock + SleepFor(clock - start)
            /\ cycle' = cycle + 1
            /\ start' = clock'
            /\ found' = FALSE
            /\ cliIdx' = 1
            /\ cliPc' = "check"
  /\ UNCHANGED <<sent, cliFrame>>

\* Ctrl+C: caught at line 378 in the --watch loop, not caught in the single check
CliInterrupt ==
  /\ cliPc \in {"check", "swept"}
  /\ cliPc' = IF cycle = 0 THEN "crashed" ELSE "interrupted"
  /\ fetched' = "none"
  /\ UNCHANGED <<clock, cycle, start, found, cliIdx, sent, cliFrame>>

CliNext ==
  \/ \E outcome \in Outcomes, latency \in Latencies : CliCheck(outcome, latency)
  \/ CliAfterSweep
  \/ CliInterrupt

CliSpec == CliInit /\ [][CliNext]_vars

\* One chat and the first command it sends, a start-watch; it may stop later.
FirstWatch(chat_id, msgtext) ==
  /\ inbox = <<>>
  /\ HandleUpdate(chat_id, msgtext)

StopWatch(chat_id) == HandleUpdate(chat_id, <<VerbStop>>)

CmdNext ==
  \/ \E msgtext \in CmdTexts : FirstWatch("c1", msgtext)
  \/ StopWatch("c1")

CmdSpec == Init /\ [][CmdNext]_vars

(***************************************************************************)
(* The claims about the bot loop.                                          *)
(***************************************************************************)
\* a step that checked a url: lines 322-326 ran for the url at idx
Checked == pc = "sweep" /\ fetched' # "none"
CheckedChat == Head(pending)
CheckedUrl == tasks[Head(pending)].urls[idx]

FoundSent(box, chat_id, url) ==
  \E i \in 1..Len(box) : box[i] = Msg(chat_id, "found", url)
AnyFound(box) == \E i \in 1..Len(box) : box[i].kind = "found"

\* C1: in bot mode a check of a url sends a notification for that url if and
\* only if the new result is present and the stored previous state of the url
\* is not present; no other check sends a notification.
C1_NotifyIffNewlyPresent ==
  [][Checked =>
       /\ FoundSent(outbox', CheckedChat, CheckedUrl)
            <=> (fetched' = "present" /\ tasks[CheckedChat].states[CheckedUrl] # "True")
       /\ AnyFound(outbox') => FoundSent(outbox', CheckedChat, CheckedUrl)
       /\ Len(outbox') <= 1]_vars

\* a present result for a url whose state was not present, and its notification
C1_Witness ==
  /\ fetched = "present"
  /\ AnyFound(outbox)

\* the checks of history that are about one url of one chat
ChecksOf(chat_id, url) ==
  SelectSeq(history, LAMBDA h : h.chat = chat_id /\ h.url = url)

Results(checks) == [i \in 1..Len(checks) |-> checks[i].result]
Sent(checks) == [i \in 1..Len(checks) |-> checks[i].sent]

RECURSIVE SumSeq(_)
SumSeq(q) == IF q = <<>> THEN 0 ELSE Head(q) + SumSeq(Tail(q))

\* C2: over the sweeps of a task that is not replaced or stopped, between two
\* notifications for a url lies a check of that url that was absent or a
\* fetch error, no check sends more than one, and the results absent, present,
\* present, absent, present from state unknown send exactly 2 notifications.
C2_OncePerEntryIntoPresent ==
  \A c \in ChatIds : \A u \in {UrlA, UrlB} :
    LET checks == ChecksOf(c, u)
    IN  /\ \A i \in 1..Len(checks) : checks[i].sent <= 1
        /\ \A i \in 1..Len(checks) : \A j \in (i + 1)..Len(checks) :
             (checks[i].sent = 1 /\ checks[j].sent = 1) =>
               \E k \in (i + 1)..(j - 1) : checks[k].result \in {"absent", "transport"}
        /\ Results(checks) = <<"absent", "present", "present", "absent", "present">>
             => SumSeq(Sent(checks)) = 2

\* five sweeps of a one-url task gave: absent, present, present, absent, present
C2_Witness ==
  Results(ChecksOf("c1", UrlB)) = <<"absent", "present", "present", "absent", "present">>

\* C3: a transport error of the fetch of one url makes the state of that url
\* absent, sends no notification, and leaves the sweep at the next url of the
\* same task; a sweep hands over to the schedule only past the last url.
C3_TransportErrorFailSafe ==
  [][/\ (Checked /\ fetched' = "transport") =>
          /\ tasks'[CheckedChat].states[CheckedUrl] = "False"
          /\ outbox' = <<>>
          /\ pc' = "sweep" /\ pending' = pending /\ idx' = idx + 1
     /\ (pc = "sweep" /\ pc' = "due") => idx = Len(tasks[Head(pending)].urls) + 1
     /\ (pc = "sweep" /\ pc' = "sweep") => idx' = idx + 1]_vars

\* the fetch of the first url of a two-url task has just failed with a
\* transport error: the url is absent and the sweep stands at the second url
C3_Witness ==
  /\ fetched = "transport"
  /\ pc = "sweep"
  /\ idx = 2
  /\ Len(tasks[Head(pending)].urls) = 2
  /\ tasks[Head(pending)].states[tasks[Head(pending)].urls[1]] = "False"
  /\ outbox = <<>>

\* C4: the sweep of a due task leaves the task due at now + interval, where now
\* is the reading taken when the tick started; the time the fetches take moves
\* the clock, not now.
C4_AnchoredSchedule ==
  [][/\ (pc = "updates" /\ pc' = "due") => now' = clock
     /\ pc # "updates" => now' = now
     /\ (pc = "sweep" /\ pc' = "due") =>
          tasks'[Head(pending)].next_at = now + tasks[Head(pending)].interval]_vars

\* the first tick, read at the start time, swept a task of the default interval
\* with a slow fetch: the task is due at now + interval, earlier than
\* clock + interval
C4_Witness ==
  /\ pc = "due"
  /\ now = StartTime * 10
  /\ clock = now + MaxLatency * 10
  /\ \E c \in DOMAIN tasks :
       /\ tasks[c].interval = DefaultInterval
       /\ tasks[c].next_at = now + DefaultInterval
       /\ tasks[c].next_at < clock + DefaultInterval

\* the step handled an update of the batch: its chat and its text
Handled == inbox' # <<>>
FromChat == inbox'[1].chat
HandledText == inbox'[1].text

\* a valid start-watch: the watch verb, and a url among the arguments
ValidWatch(msgtext) ==
  /\ Len(msgtext) >= 2
  /\ LowerAscii(msgtext[1]) \in CmdWatch
  /\ \E i \in 2..Len(msgtext) : IsUrl(msgtext[i])

\* C5: a valid start-watch from a chat that has a task replaces the task: the
\* urls and the interval are those of the command and every url state is
\* unknown; a present result for a url of unknown state notifies.
C5_WatchReplaces ==
  [][/\ (Handled /\ ValidWatch(HandledText) /\ FromChat \in DOMAIN tasks) =>
          /\ FromChat \in DOMAIN tasks'
          /\ tasks'[FromChat].urls = Interpret(HandledText).urls
          /\ tasks'[FromChat].interval = Interpret(HandledText).interval
          /\ DOMAIN tasks'[FromChat].states =
               {tasks'[FromChat].urls[i] : i \in 1..Len(tasks'[FromChat].urls)}
          /\ \A u \in DOMAIN tasks'[FromChat].states : tasks'[FromChat].states[u] = "None"
     /\ (Checked /\ fetched' = "present" /\ tasks[CheckedChat].states[CheckedUrl] = "None")
          => FoundSent(outbox', CheckedChat, CheckedUrl)]_vars

\* c1 was stored before c2 and never removed since, c2 has been swept, so c1
\* has been swept too: its task, unknown and due again, is a replacement
C5_Witness ==
  /\ order = <<"c1", "c2">>
  /\ tasks["c2"].next_at > 0
  /\ tasks["c1"].next_at = 0
  /\ \A u \in DOMAIN tasks["c1"].states : tasks["c1"].states[u] = "None"
  /\ inbox # <<>> /\ inbox[1].chat = "c1"
  /\ outbox = <<Msg("c1", "started", <<>>)>>

\* a stop command: the stop verb, whatever follows it
IsStop(msgtext) ==
  /\ Len(msgtext) >= 1
  /\ LowerAscii(msgtext[1]) \in CmdStop

\* C6: a stop removes the task of its chat at once and whole, and changes
\* nothing when the chat has none; a chat gets a task only by its own valid
\* start-watch; only urls of tasks in the table are checked and detection
\* notifications go only to chats with a task in the table.
C6_StopRemoves ==
  [][/\ (Handled /\ IsStop(HandledText)) =>
          /\ FromChat \notin DOMAIN tasks'
          /\ DOMAIN tasks' = DOMAIN tasks \ {FromChat}
          /\ \A d \in DOMAIN tasks' : tasks'[d] = tasks[d]
     /\ \A c \in ChatIds :
          (c \notin DOMAIN tasks /\ c \in DOMAIN tasks') =>
            Handled /\ FromChat = c /\ ValidWatch(HandledText)
     /\ Checked => CheckedChat \in DOMAIN tasks /\ CheckedChat \in DOMAIN tasks'
     /\ \A i \in 1..Len(outbox') :
          outbox'[i].kind = "found" => outbox'[i].to \in DOMAIN tasks']_vars

\* a stop with arguments has just removed a task that had been swept
C6_Witness ==
  /\ inbox = <<[chat |-> "c1", text |-> <<VerbStopUpper, UrlA>>]>>
  /\ outbox = <<Msg("c1", "stopped", <<>>)>>
  /\ "c1" \notin DOMAIN tasks
  /\ "c2" \in DOMAIN tasks
  /\ now > 0

\* the positions of the arguments that begin with http:// or https://
UrlPositions(args) ==
  {i \in 1..Len(args) :
     StartsWith(args[i], HttpPrefix) \/ StartsWith(args[i], HttpsPrefix)}

\* the positions of the other arguments that are numbers >= 1.0
IntervalPositions(args) ==
  {i \in (1..Len(args)) \ UrlPositions(args) :
     CanParseFloat(args[i]) /\ ParseFloat(args[i]) >= 10}

\* the k-th smallest member of a set of positions
Kth(S, k) == CHOOSE i \in S : Cardinality({j \in S : j < i}) = k - 1
Last(S) == CHOOSE i \in S : \A j \in S : j <= i

\* C7: a start-watch with at least one argument, of which one is a url, stores
\* a task whose urls are exactly the arguments that begin with http:// or
\* https://, in their order and with duplicates, and whose interval is the last
\* other argument that is a number >= 1.0, the default when there is none;
\* "watch https://a.test https://b.test 10" gives both urls and interval 10.0.
C7_WatchArguments ==
  [][(Handled /\ LowerAscii(HandledText[1]) \in CmdWatch /\ Len(HandledText) >= 2
        /\ UrlPositions(Tail(HandledText)) # {}) =>
       LET args == Tail(HandledText)
           U == UrlPositions(args)
           N == IntervalPositions(args)
           task == tasks'[FromChat]
       IN  /\ FromChat \in DOMAIN tasks'
           /\ Len(task.urls) = Cardinality(U)
           /\ \A k \in 1..Cardinality(U) : task.urls[k] = args[Kth(U, k)]
           /\ task.interval = IF N = {} THEN DefaultInterval ELSE ParseFloat(args[Last(N)])
           /\ HandledText = <<VerbWatchPlain, UrlA, UrlB, WordTen>> =>
                task.urls = <<UrlA, UrlB>> /\ task.interval = 100]_vars

\* a start-watch with a repeated url, two numbers of which the last counts,
\* and the task it stored
C7_Witness ==
  /\ inbox = <<[chat |-> "c1", text |-> <<VerbWatchPlain, WordTen, UrlA, WordOne>>]>>
  /\ "c1" \in DOMAIN tasks
  /\ tasks["c1"].urls = <<UrlA>>
  /\ tasks["c1"].interval = 10

\* a malformed start-watch: the watch verb with no url among the arguments
MalformedWatch(msgtext) ==
  /\ Len(msgtext) >= 1
  /\ LowerAscii(msgtext[1]) \in CmdWatch
  /\ \A i \in 2..Len(msgtext) : ~IsUrl(msgtext[i])

\* C8 as stated: a malformed start-watch changes no task and sends nothing.
C8_MalformedIsSilent ==
  [][(Handled /\ MalformedWatch(HandledText)) =>
       /\ tasks' = tasks /\ order' = order
       /\ outbox' = <<>>]_vars

\* C8 as the code has it: a malformed start-watch changes no task; the bare verb
\* sends nothing, the verb with arguments but no url is answered with one
\* message to the sender, the request for a url.
C8_MalformedKeepsTasks ==
  [][(Handled /\ MalformedWatch(HandledText)) =>
       /\ tasks' = tasks /\ order' = order
       /\ outbox' = IF Len(HandledText) = 1 THEN <<>>
                    ELSE <<Msg(FromChat, "need_url", <<>>)>>]_vars

\* a chat with a swept task is asked for a url, the task is still there
C8_Witness ==
  /\ inbox = <<[chat |-> "c1", text |-> <<VerbWatch, WordOne>>]>>
  /\ outbox = <<Msg("c1", "need_url", <<>>)>>
  /\ "c1" \in DOMAIN tasks
  /\ tasks["c1"].next_at > 0

\* the urls of a task, as a set
UrlSet(task) == {task.urls[i] : i \in 1..Len(task.urls)}

\* C12: in every state of the bot loop the keys of the states of every task of
\* the table are exactly the urls of its list, a list with a repeated url
\* included, whether the task was just stored, replaced or swept.
C12_StatesKeyedByUrls ==
  \A c \in DOMAIN tasks :
    /\ DOMAIN tasks[c].states = UrlSet(tasks[c])
    /\ \A u \in DOMAIN tasks[c].states : tasks[c].states[u] \in {"None", "True", "False"}

\* a task whose list holds one url twice has been swept: one key, one state
C12_Witness ==
  /\ "c1" \in DOMAIN tasks
  /\ tasks["c1"].urls = <<UrlA, UrlA>>
  /\ tasks["c1"].next_at > 0
  /\ DOMAIN tasks["c1"].states = {UrlA}
  /\ tasks["c1"].states[UrlA] = "True"

\* the chats of a sequence of chat ids
ChatsOf(q) == {q[i] : i \in 1..Len(q)}

\* C13: a tick reads now once and goes through every task of the table; the
\* task it stands at is swept when its next due time is <= now, and is passed
\* over with its states and next due time unchanged and no fetch otherwise;
\* only tasks that are due are fetched, a task that is not due is not changed
\* during the tick, and the pause is taken only when no task of the table is
\* still due at now.
C13_SweptIffDue ==
  [][/\ (pc = "updates" /\ pc' = "due") =>
          /\ now' = clock
          /\ ChatsOf(pending') = DOMAIN tasks
          /\ Len(pending') = Cardinality(DOMAIN tasks)
     /\ (pc = "due" /\ pending # <<>>) =>
          IF tasks[Head(pending)].next_at <= now
            THEN pc' = "sweep" /\ idx' = 1 /\ pending' = pending
            ELSE /\ pc' = "due" /\ pending' = Tail(pending)
                 /\ tasks' = tasks /\ fetched' = "none"
     /\ Checked => tasks[CheckedChat].next_at <= now
     /\ \A c \in DOMAIN tasks :
          (pc \in {"due", "sweep"} /\ tasks[c].next_at > now) => tasks'[c] = tasks[c]
     /\ (pc = "due" /\ pc' = "updates") =>
          /\ pending = <<>>
          /\ \A c \in DOMAIN tasks : tasks[c].next_at > now]_vars

\* the end of a tick with two tasks: the one of c1 was due and has been swept,
\* the one of c2, swept in an earlier tick, was not due and is as it was
C13_Witness ==
  /\ pc = "due"
  /\ pending = <<>>
  /\ DOMAIN tasks = {"c1", "c2"}
  /\ tasks["c1"].next_at = now + tasks["c1"].interval
  /\ tasks["c2"].next_at > now
  /\ tasks["c2"].next_at < now + tasks["c2"].interval

\* the sweep a check of history belongs to: the sweeps of the one task followed
\* go through its urls in order, so check k is of sweep (k - 1) \div Len(urls)
SweepOf(k) == (k - 1) \div Len(tasks[history[k].chat].urls)

\* the step replaces the task of chat c
Replaces(c) == Handled /\ FromChat = c /\ tasks' # tasks

\* C14: for a task that is not replaced in between, the ticks of two different
\* sweeps of it read times at least the interval apart, and no step lets its
\* next due time decrease; the clock does not go back.
C14_MinimumGap ==
  /\ [](\A i \in 1..Len(history) : \A j \in (i + 1)..Len(history) :
          SweepOf(i) < SweepOf(j) =>
            history[j].at - history[i].at >= tasks[history[j].chat].interval)
  /\ [][/\ clock' >= clock
        /\ \A c \in DOMAIN tasks \cap DOMAIN tasks' :
             ~Replaces(c) => tasks'[c].next_at >= tasks[c].next_at]_vars

\* two sweeps of a task watched every second, in ticks one second apart
C14_Witness ==
  \E i \in 1..Len(history) : \E j \in (i + 1)..Len(history) :
    /\ SweepOf(i) < SweepOf(j)
    /\ tasks[history[j].chat].interval = MinInterval
    /\ history[j].at - history[i].at = MinInterval

\* the verb of a text, lower-cased; the empty text has none
VerbOf(msgtext) == IF msgtext = <<>> THEN <<>> ELSE LowerAscii(msgtext[1])

\* a status, help or unknown command: any text that is neither a start-watch
\* nor a stop
IsPassive(msgtext) == VerbOf(msgtext) \notin CmdWatch \cup CmdStop

\* C15: a status, help or unknown command leaves the task table as it is: the
\* same chat ids, and for each the same urls, interval, states and next due
\* time; the table changes only in a step that handles a start-watch or a
\* stop, or in a step of a sweep.
C15_PassiveCommands ==
  [][/\ (Handled /\ IsPassive(HandledText)) => tasks' = tasks /\ order' = order
     /\ tasks' # tasks =>
          \/ Handled /\ VerbOf(HandledText) \in CmdWatch \cup CmdStop
          \/ pc = "sweep"]_vars

\* a status command of a chat whose task has been swept, answered, the task
\* still in the table
C15_Witness ==
  /\ inbox = <<[chat |-> "c1", text |-> <<VerbStatus>>]>>
  /\ outbox = <<Msg("c1", "status", <<>>)>>
  /\ "c1" \in DOMAIN tasks
  /\ tasks["c1"].next_at > 0
  /\ \E u \in DOMAIN tasks["c1"].states : tasks["c1"].states[u] = "True"

\* C18: a check of a url of a task sends its messages to the chat id the task
\* is stored under and to no other, changes no other task, and a detection
\* message is sent by no step other than a check.
C18_NotifiesOwnChat ==
  [][/\ Checked =>
          /\ \A i \in 1..Len(outbox') : outbox'[i].to = CheckedChat
          /\ \A c \in DOMAIN tasks \ {CheckedChat} :
               c \in DOMAIN tasks' /\ tasks'[c] = tasks[c]
     /\ AnyFound(outbox') => Checked]_vars

\* in one tick the task of c1 has been swept and a check for the task of c2
\* has just notified c2
C18_Witness ==
  /\ pc = "sweep"
  /\ order = <<"c1", "c2">>
  /\ Head(pending) = "c2"
  /\ tasks["c1"].next_at = now + tasks["c1"].interval
  /\ \E u \in DOMAIN tasks["c2"].states : outbox = <<Msg("c2", "found", u)>>

\* C19: a valid start-watch leaves the task of its chat with next due time 0;
\* the tick that follows the commands goes through every task of the table,
\* sweeps a task whose next due time is 0 when it stands at it, and reaches
\* its pause only when every task of the table has a next due time other
\* than 0 and a state for every url: a task still in the table had its first
\* full sweep in the tick after its command.
C19_DueImmediately ==
  [][/\ (Handled /\ ValidWatch(HandledText)) =>
          FromChat \in DOMAIN tasks' /\ tasks'[FromChat].next_at = 0
     /\ (pc = "updates" /\ pc' = "due") => ChatsOf(pending') = DOMAIN tasks
     /\ (pc = "due" /\ pending # <<>> /\ tasks[Head(pending)].next_at = 0) =>
          pc' = "sweep" /\ idx' = 1
     /\ (pc = "due" /\ pc' = "updates") =>
          \A c \in DOMAIN tasks :
            /\ tasks[c].next_at # 0
            /\ \A u \in DOMAIN tasks[c].states : tasks[c].states[u] # "None"]_vars

\* the tick of the first loop iteration, read at the start time with no time
\* gone by since: the task stored in this iteration has been swept in full
C19_Witness ==
  /\ pc = "due"
  /\ pending = <<>>
  /\ now = StartTime * 10
  /\ clock = now
  /\ "c1" \in DOMAIN tasks
  /\ Len(tasks["c1"].urls) = 2
  /\ tasks["c1"].next_at = now + tasks["c1"].interval
  /\ \A u \in DOMAIN tasks["c1"].states : tasks["c1"].states[u] # "None"

\* the cursor as a number: None counts as 0, as in "next_offset or 0"
Cursor(offset) == IF offset = <<>> THEN 0 ELSE offset[1]

\* C17: the cursor never decreases; the step that goes through an update u of
\* the batch leaves the cursor greater than u, whether or not u carries a
\* message, a chat and a text; a poll takes only updates with id >= cursor,
\* and no update id reaches the command dispatch twice.
C17_CursorAdvances ==
  /\ [](\A i \in 1..Len(applied) : \A j \in (i + 1)..Len(applied) :
          applied[i] # applied[j])
  /\ [][/\ Cursor(next_offset') >= Cursor(next_offset)
        /\ (batch # <<>> /\ batch' = Tail(batch)) =>
             next_offset' # <<>> /\ next_offset'[1] > Head(batch).id
        /\ (batch = <<>> /\ batch' # <<>>) =>
             \A i \in 1..Len(batch') :
               next_offset = <<>> \/ batch'[i].id >= next_offset[1]]_vars

\* a batch taken with the ids falling has been gone through; its last update,
\* with the lower id and no text, left the cursor above the higher id, and the
\* command of the other was applied once
C17_Witness ==
  /\ Len(server) >= 2
  /\ batch = <<>>
  /\ next_offset = <<2>>
  /\ server[1].text = <<>>
  /\ applied = <<1>>

\* the known-bad default, in any case of letters
IsBadDefault(enc) == LowerAscii(enc) = Latin1

\* C16: a page is decoded with the declared encoding when there is one and it
\* is not the known-bad default iso-8859-1; with the detected encoding when
\* the declared one is absent or is that default; with utf-8 only when the
\* detection gave nothing either.
C16_EncodingFallback ==
  encoding # <<>> =>
    encoding = IF declared # <<>> /\ ~IsBadDefault(declared) THEN declared
               ELSE IF apparent # <<>> THEN apparent
               ELSE Utf8

\* a step of a command-line driver that checked the url at cliIdx
CliChecked == cliPc = "check" /\ fetched' # "none"

\* C11: in the --watch driver a check that returns present ends the loop over
\* the urls, and from there the program only finishes: no url after it is
\* checked and no sweep starts; a check that returns absent or fails with a
\* transport error goes on to the next url, and a sweep without detection is
\* followed by the next sweep unless the run is interrupted; the program
\* finishes on its own only after a detection.
C11_StopsAtFirstPresent ==
  [][cycle >= 1 =>
       /\ (CliChecked /\ fetched' = "present") =>
            found' /\ cliPc' = "swept" /\ cycle' = cycle
       /\ (cliPc = "swept" /\ found) =>
            cliPc' \in {"done", "interrupted"} /\ cycle' = cycle /\ sent' = sent
       /\ cliPc \notin {"check", "swept"} => UNCHANGED vars
       /\ (CliChecked /\ fetched' \in {"absent", "transport"}) =>
            /\ ~found'
            /\ cliIdx' = cliIdx + 1
            /\ cliPc' = IF cliIdx = Len(CliUrls) THEN "swept" ELSE "check"
       /\ (cliPc = "swept" /\ ~found /\ cliPc' # "interrupted") =>
            cliPc' = "check" /\ cycle' = cycle + 1 /\ cliIdx' = 1
       /\ cliPc' = "done" => found]_vars

\* the second sweep found the text at the first url: the program finished,
\* the second url not checked again
C11_Witness ==
  /\ cliPc = "done"
  /\ cycle = 2
  /\ cliIdx = 2
  /\ found
  /\ sent = <<Msg(TgChatId, "found", UrlA)>>

\* C20: a run of a command-line driver, single check or --watch, sends at most
\* one detection notification, and none without a detection.
C20_AtMostOneNotification ==
  /\ Len(SelectSeq(sent, LAMBDA m : m.kind = "found")) <= 1
  /\ Len(sent) <= 1
  /\ sent # <<>> => found

\* the single check found the text at the second url and sent its one message
C20_Witness ==
  /\ cliPc = "done"
  /\ cycle = 0
  /\ cliIdx = 3
  /\ sent = <<Msg(TgChatId, "found", UrlB)>>

\* C10: the normalizer is idempotent: applied to its own result it returns
\* that result.
C10_Idempotent == [][passes >= 1 => text' = text]_vars

\* C9: no error raised by the check of one url leaves the check: the loop of
\* the bot goes on.
C9_NoErrorEscapes == pc # "crashed"

====
